---- MODULE Spec2Model ----
(***************************************************************************)
(* SmartScan EduPad Pro: the OMR answer extraction of src/app.py           *)
(* (omr_detect_answers), the scoring function (calculate_score, in         *)
(* src/app.py and src/utils/scorer.py) and the Streamlit script's          *)
(* "Start Comparison" handler with its session state.                      *)
(*                                                                         *)
(* Representation.                                                         *)
(*  - A bubble is the tuple (x, y, w, h) of the code together with the     *)
(*    fill of its region of the mask, countNonZero(roi) / (w * h); the     *)
(*    fill is kept in tenths, so the literal 0.2 of the code is 2.  The    *)
(*    code only compares fills with each other and with 0.2.               *)
(*  - An answer map is a function from question numbers to labels; the     *)
(*    code's keys are str(qi), which is injective on the row numbers, so   *)
(*    the row number itself is the key.                                    *)
(*  - A score is kept in hundredths of a percent (round(..., 2) * 100).    *)
(***************************************************************************)
EXTENDS Integers, Sequences, FiniteSets, TLC

VARIABLES
    bubbles,      \* omr_detect_answers: the bubbles list before sorting
    clustered,    \* omr_detect_answers: rows after the clustering loop
    rows,         \* omr_detect_answers: rows after each row is sorted by x
    answers,      \* omr_detect_answers: the returned dict
    omr_pc,       \* "start" | "done"
    key_answers,      \* calculate_score: first argument
    student_answers,  \* calculate_score: second argument
    total,            \* calculate_score: len(key_answers)
    correct,          \* calculate_score: the counter of the loop
    score,            \* calculate_score: the value returned
    score_pc,         \* "start" | "app" (src/app.py) | "scorer" (src/utils/scorer.py)
    coords_len,   \* deskew: len(coords), the number of edge pixels
    rect_angle,   \* deskew: cv2.minAreaRect(coords)[-1], in degrees
    angle,        \* deskew: the angle handed to getRotationMatrix2D
    rotated,      \* deskew: cv2.warpAffine was applied
    skew_pc,      \* "start" | "done"
    answer_key_image,  \* st.session_state.answer_key_image
    student_papers,    \* st.session_state.student_papers
    passing_score,     \* the sidebar slider
    results,           \* st.session_state.results
    pressed,      \* history: what the last press of the button came to
    made,         \* history: the sheets the last press appended a record for
    stored        \* history: the last press assigned st.session_state.results

omrVars == <<bubbles, clustered, rows, answers, omr_pc>>

scoreVars == <<key_answers, student_answers, total, correct, score, score_pc>>

skewVars == <<coords_len, rect_angle, angle, rotated, skew_pc>>

appVars == <<answer_key_image, student_papers, passing_score, results,
             pressed, made, stored>>

vars == <<omrVars, scoreVars, skewVars, appVars>>

\* ------------------------------------------------------------------ bounds
MaxCands == 3       \* scattered marks on a sheet
MaxRowWidth == 6    \* bubbles printed in one row
MaxFill == 4        \* largest fill, in tenths
MaxQ == 3           \* questions of a short answer map
LongTotal == 20001  \* questions of a long answer sheet
MaxSheets == 2      \* student sheets of one upload
MaxSheetQ == 1      \* questions of an uploaded sheet

\* -------------------------------------------------------- program constants
RowThreshold == 20  \* abs(row[0][1] - b[1]) < 20
FillThreshold == 2  \* fill > 0.2, in tenths

None == "None"

Abs(n) == IF n < 0 THEN -n ELSE n

Min(S) == CHOOSE m \in S : \A n \in S : m <= n

Front(s) == SubSeq(s, 1, Len(s) - 1)

Last(s) == s[Len(s)]

\* chr(ord('A') + oi)
Letters == <<"A", "B", "C", "D", "E", "F", "G", "H", "I", "J", "K", "L", "M",
             "N", "O", "P", "Q", "R", "S", "T", "U", "V", "W", "X", "Y", "Z">>

Chr(oi) == Letters[oi + 1]

\* ------------------------------------------------ sorted(), list.sort()
\* Python's sort is stable: an element goes after every element whose key is
\* not greater.
InsertByY(sorted, b) ==
    LET k == Cardinality({i \in 1..Len(sorted) : sorted[i].y <= b.y})
    IN  SubSeq(sorted, 1, k) \o <<b>> \o SubSeq(sorted, k + 1, Len(sorted))

RECURSIVE SortByY(_)
SortByY(s) == IF s = <<>> THEN <<>> ELSE InsertByY(SortByY(Front(s)), Last(s))

InsertByX(sorted, b) ==
    LET k == Cardinality({i \in 1..Len(sorted) : sorted[i].x <= b.x})
    IN  SubSeq(sorted, 1, k) \o <<b>> \o SubSeq(sorted, k + 1, Len(sorted))

SortByXNone(s) == s

RECURSIVE SortByX(_)
SortByX(s) == IF s = <<>> THEN <<>> ELSE InsertByX(SortByX(Front(s)), Last(s))

\* ------------------------------------------------------- row clustering
\* One pass of "for b in bubbles": the first row whose first bubble is less
\* than 20 px away takes b, else b opens a row.
PlaceLastBubble(rs, b) ==
    LET hits == {i \in 1..Len(rs) : Abs(Last(rs[i]).y - b.y) < RowThreshold}
    IN  IF hits # {}
        THEN [rs EXCEPT ![Min(hits)] = Append(@, b)]
        ELSE Append(rs, <<b>>)

Place(rs, b) ==
    LET hits == {i \in 1..Len(rs) : Abs(rs[i][1].y - b.y) < RowThreshold}
    IN  IF hits # {}
        THEN [rs EXCEPT ![Min(hits)] = Append(@, b)]
        ELSE Append(rs, <<b>>)

RECURSIVE ClusterRows(_)
ClusterRows(s) == IF s = <<>> THEN <<>> ELSE Place(ClusterRows(Front(s)), Last(s))

SortRows(rs) == [i \in 1..Len(rs) |-> SortByX(rs[i])]

\* --------------------------------------------------- filled bubble detection
\* The loop over enumerate(row): the state is (best_fill, best_opt).
StepBestInclusive(best, oi, fill) ==
    IF fill > best.fill /\ fill >= FillThreshold
    THEN [fill |-> fill, opt |-> Chr(oi)]
    ELSE best

StepBest(best, oi, fill) ==
    IF fill > best.fill /\ fill > FillThreshold
    THEN [fill |-> fill, opt |-> Chr(oi)]
    ELSE best

RECURSIVE BestOf(_)
BestOf(row) ==
    IF row = <<>>
    THEN [fill |-> 0, opt |-> None]
    ELSE StepBest(BestOf(Front(row)), Len(row) - 1, Last(row).fill)

best_opt(row) == BestOf(row).opt

AnswersOf(rs) ==
    [qi \in {q \in 1..Len(rs) : best_opt(rs[q]) # None} |-> best_opt(rs[qi])]

\* ------------------------------------------------------ omr_detect_answers
Xs == {10, 40}
Ys == {0, 10, 20, 30, 40}
\* A detected bubble has ink: its fill is above 0.
RowFills == 1..MaxFill

SeqsUpTo(S, n) == UNION {[1..k -> S] : k \in 0..n}

\* A mark anywhere on the sheet, an outline or filled in.
Marks == [x : Xs, y : Ys, fill : {1, MaxFill}]

\* One printed row of n bubbles at y = 20, x = 10, 40, 70, ..., detected right
\* to left, the k-th detected of fill f[k].
PrintedRow(n, f) ==
    [k \in 1..n |-> [x |-> 10 + 30 * (n - k), y |-> 20, fill |-> f[k]]]

IdleOmr ==
    /\ bubbles = <<>>
    /\ clustered = <<>>
    /\ rows = <<>>
    /\ answers = <<>>
    /\ omr_pc = "idle"

\* The contours that pass the area and aspect filters, in the order found.
InitOmr ==
    /\ \/ \E k \in 0..MaxCands : bubbles \in [1..k -> Marks]
       \/ \E n \in 1..MaxRowWidth : \E f \in [1..n -> RowFills] :
             bubbles = PrintedRow(n, f)
    /\ clustered = <<>>
    /\ rows = <<>>
    /\ answers = <<>>
    /\ omr_pc = "start"

\* "if not bubbles: return {}"
OmrNoBubbles ==
    /\ omr_pc = "start"
    /\ bubbles = <<>>
    /\ answers' = <<>>
    /\ omr_pc' = "done"
    /\ UNCHANGED <<bubbles, clustered, rows, scoreVars, skewVars, appVars>>

OmrDetect ==
    /\ omr_pc = "start"
    /\ bubbles # <<>>
    /\ clustered' = ClusterRows(SortByY(bubbles))
    /\ rows' = SortRows(clustered')
    /\ answers' = AnswersOf(rows')
    /\ omr_pc' = "done"
    /\ UNCHANGED <<bubbles, scoreVars, skewVars, appVars>>

NextOmr == OmrNoBubbles \/ OmrDetect

\* ----------------------------------------------------------------- deskew
\* minAreaRect reports [-90, 0) before OpenCV 4.5.1 and (0, 90] from it on.
Angles == -90..90

IdleSkew ==
    /\ coords_len = 0
    /\ rect_angle = 0
    /\ angle = 0
    /\ rotated = FALSE
    /\ skew_pc = "idle"

InitSkew ==
    /\ \/ coords_len = 0 /\ rect_angle = 0
       \/ coords_len \in {1, 2} /\ rect_angle \in Angles
    /\ angle = 0
    /\ rotated = FALSE
    /\ skew_pc = "start"

\* "if angle < -45: angle = -(90 + angle) else: angle = -angle"
Fold(a) == IF a < -45 THEN -(90 + a) ELSE -a

\* "if len(coords) > 0" fails: the image is left as it is
DeskewSkip ==
    /\ skew_pc = "start"
    /\ coords_len = 0
    /\ skew_pc' = "done"
    /\ UNCHANGED <<coords_len, rect_angle, angle, rotated>>
    /\ UNCHANGED <<omrVars, scoreVars, appVars>>

Deskew ==
    /\ skew_pc = "start"
    /\ coords_len > 0
    /\ angle' = Fold(rect_angle)
    /\ rotated' = TRUE
    /\ skew_pc' = "done"
    /\ UNCHANGED <<coords_len, rect_angle, omrVars, scoreVars, appVars>>

NextSkew == DeskewSkip \/ Deskew

\* -------------------------------------------------------- calculate_score
\* round((correct / total) * 100, 2), in hundredths.  round() takes the
\* nearest hundredth; the double is within 1e-13 of the quotient, so only an
\* exact tie (20000 * correct an odd multiple of total) is left to the double's
\* last bit, and there round() goes to the even hundredth.
Round2(c, t) ==
    LET n == c * 10000
        q == n \div t
        r == n % t
    IN  IF 2 * r > t THEN q + 1
        ELSE IF 2 * r < t THEN q
        ELSE IF q % 2 = 0 THEN q ELSE q + 1

\* src/app.py: "if q in student_answers and key_answers[q] == student_answers[q]"
CorrectOverStudent(key, student) ==
    Cardinality({q \in DOMAIN student : q \notin DOMAIN key \/ key[q] = student[q]})

Correct(key, student) ==
    Cardinality({q \in DOMAIN key : q \in DOMAIN student /\ key[q] = student[q]})

\* src/utils/scorer.py: student_answers.get(q, None)
Get(student, q) == IF q \in DOMAIN student THEN student[q] ELSE None

ScorerCorrect(key, student) ==
    Cardinality({q \in DOMAIN key : key[q] = Get(student, q)})

calculate_score(key, student) ==
    LET t == Cardinality(DOMAIN key)
    IN  IF t = 0 THEN 0 ELSE Round2(Correct(key, student), t)

scorer_calculate_score(key, student) ==
    LET t == Cardinality(DOMAIN key)
    IN  IF t = 0 THEN 0 ELSE Round2(ScorerCorrect(key, student), t)

\* The labels omr_detect_answers gives, and the empty entry of a hand-made map.
Labels == {"A", "B"}

Maps(Q, L) == UNION {[D -> L] : D \in SUBSET Q}

\* A long sheet of n questions: the key all "A", the student wrong on the
\* first w of them.
LongKey(n) == [q \in 1..n |-> "A"]

LongStudent(n, w) == [q \in 1..n |-> IF q <= w THEN "B" ELSE "A"]

IdleScore ==
    /\ key_answers = <<>>
    /\ student_answers = <<>>
    /\ total = 0
    /\ correct = 0
    /\ score = 0
    /\ score_pc = "idle"

InitScore ==
    /\ \/ /\ \E D \in SUBSET (1..MaxQ) : key_answers \in [D -> Labels]
          /\ \E D \in SUBSET (1..(MaxQ + 1)) :
                student_answers \in [D -> Labels \cup {""}]
       \/ \E w \in 0..2 :
             /\ key_answers = LongKey(LongTotal)
             /\ student_answers = LongStudent(LongTotal, w)
    /\ total = 0
    /\ correct = 0
    /\ score = 0
    /\ score_pc = "start"

\* src/app.py
GradeApp ==
    /\ score_pc = "start"
    /\ total' = Cardinality(DOMAIN key_answers)
    /\ correct' = IF total' = 0 THEN 0 ELSE Correct(key_answers, student_answers)
    /\ score' = calculate_score(key_answers, student_answers)
    /\ score_pc' = "app"
    /\ UNCHANGED <<key_answers, student_answers, omrVars, skewVars, appVars>>

\* src/utils/scorer.py
GradeScorer ==
    /\ score_pc = "start"
    /\ total' = Cardinality(DOMAIN key_answers)
    /\ correct' = IF total' = 0 THEN 0 ELSE ScorerCorrect(key_answers, student_answers)
    /\ score' = scorer_calculate_score(key_answers, student_answers)
    /\ score_pc' = "scorer"
    /\ UNCHANGED <<key_answers, student_answers, omrVars, skewVars, appVars>>

NextScore == GradeApp \/ GradeScorer

\* ------------------------------------------------- the Streamlit script
\* An uploaded file is what omr_detect_answers comes to on it:
\*   "ok"          the dict of line 122, empty when no row is filled;
\*   "no_bubbles"  "if not bubbles: return {}";
\*   "unreadable"  cv2.imread gives None, the ValueError is caught: {};
\*   "stage_error" another exception inside the try, caught: {};
\*   "io_error"    an exception of lines 26-28, before the try: it propagates.
Caught == {"no_bubbles", "unreadable", "stage_error"}

Files ==
    {[outcome |-> "ok", answers |-> m] : m \in Maps(1..MaxSheetQ, Labels)}
    \cup {[outcome |-> o, answers |-> <<>>] : o \in Caught \cup {"io_error"}}

\* st.session_state.answer_key_image = None
NoFile == [outcome |-> "none", answers |-> <<>>]

\* st.session_state.results = None; a stored DataFrame is never empty
NoResults == <<>>

Raises(f) == f.outcome = "io_error"

omr_detect_answers(f) == IF f.outcome = "ok" THEN f.answers ELSE <<>>

\* the slider, 40..100, default 60
PassingScores == {60, 100}

\* np.random.uniform(85, 99), as the tenths that "{confidence:.1f}%" prints
Confidences == {850, 989}

Record(i, key, paper, conf) ==
    LET sc == calculate_score(key, omr_detect_answers(paper))
    IN  [id |-> i,
         score |-> sc,
         confidence |-> conf,
         status |-> IF sc >= passing_score * 100 THEN "PASS" ELSE "FAIL"]

\* "for i, paper in enumerate(...)": an exception skips the sheet, anything
\* else appends its record.
RECURSIVE Loop(_, _, _, _)
Loop(n, key, papers, conf) ==
    IF n = 0 THEN <<>>
    ELSE IF Raises(papers[n])
         THEN Loop(n - 1, key, papers, conf)
         ELSE Append(Loop(n - 1, key, papers, conf),
                     Record(n, key, papers[n], conf[n]))

IdleApp ==
    /\ answer_key_image = NoFile
    /\ student_papers = <<>>
    /\ passing_score = 60
    /\ results = NoResults
    /\ pressed = "idle"
    /\ made = {}
    /\ stored = FALSE

InitApp ==
    /\ answer_key_image = NoFile
    /\ student_papers = <<>>
    /\ passing_score = 60
    /\ results = NoResults
    /\ pressed = "not_pressed"
    /\ made = {}
    /\ stored = FALSE

\* A rerun of the script with the button not pressed: a non-empty uploader
\* overwrites the session value (an emptied one leaves it).
UploadKey(f) ==
    /\ answer_key_image' = f
    /\ pressed' = "not_pressed"
    /\ UNCHANGED <<student_papers, passing_score, results, made, stored>>
    /\ UNCHANGED <<omrVars, scoreVars, skewVars>>

UploadStudents(fs) ==
    /\ fs # <<>>
    /\ student_papers' = fs
    /\ pressed' = "not_pressed"
    /\ UNCHANGED <<answer_key_image, passing_score, results, made, stored>>
    /\ UNCHANGED <<omrVars, scoreVars, skewVars>>

MoveSlider(p) ==
    /\ p # passing_score
    /\ passing_score' = p
    /\ pressed' = "not_pressed"
    /\ UNCHANGED <<answer_key_image, student_papers, results, made, stored>>
    /\ UNCHANGED <<omrVars, scoreVars, skewVars>>

\* "if not st.session_state.answer_key_image: ... st.stop()"
PressNoKey ==
    /\ answer_key_image = NoFile
    /\ pressed' = "no_key"
    /\ made' = {}
    /\ stored' = FALSE
    /\ UNCHANGED <<answer_key_image, student_papers, passing_score, results>>
    /\ UNCHANGED <<omrVars, scoreVars, skewVars>>

\* "if not st.session_state.student_papers: ... st.stop()"
PressNoSheets ==
    /\ answer_key_image # NoFile
    /\ student_papers = <<>>
    /\ pressed' = "no_sheets"
    /\ made' = {}
    /\ stored' = FALSE
    /\ UNCHANGED <<answer_key_image, student_papers, passing_score, results>>
    /\ UNCHANGED <<omrVars, scoreVars, skewVars>>

\* line 213 is outside every try: an exception of the key's upload ends the run
PressKeyRaises ==
    /\ answer_key_image # NoFile
    /\ student_papers # <<>>
    /\ Raises(answer_key_image)
    /\ pressed' = "key_raised"
    /\ made' = {}
    /\ stored' = FALSE
    /\ UNCHANGED <<answer_key_image, student_papers, passing_score, results>>
    /\ UNCHANGED <<omrVars, scoreVars, skewVars>>

\* lines 213-251
StartComparison ==
    /\ answer_key_image # NoFile
    /\ student_papers # <<>>
    /\ ~Raises(answer_key_image)
    /\ \E conf \in [1..Len(student_papers) -> Confidences] :
          LET key == omr_detect_answers(answer_key_image)
              rs == Loop(Len(student_papers), key, student_papers, conf)
          IN  /\ results' = IF rs # <<>> THEN rs ELSE results
              /\ made' = {rs[k].id : k \in 1..Len(rs)}
              /\ stored' = (rs # <<>>)
    /\ pressed' = "completed"
    /\ UNCHANGED <<answer_key_image, student_papers, passing_score>>
    /\ UNCHANGED <<omrVars, scoreVars, skewVars>>

Next ==
    \/ \E f \in Files : UploadKey(f)
    \/ \E fs \in SeqsUpTo(Files, MaxSheets) : UploadStudents(fs)
    \/ \E p \in PassingScores : MoveSlider(p)
    \/ PressNoKey
    \/ PressNoSheets
    \/ PressKeyRaises
    \/ StartComparison

Init == InitApp /\ IdleOmr /\ IdleScore /\ IdleSkew

Spec == Init /\ [][Next]_vars

InitOmrSheet == InitOmr /\ IdleScore /\ IdleSkew /\ IdleApp

SpecOmr == InitOmrSheet /\ [][NextOmr]_vars

InitSkewImage == InitSkew /\ IdleOmr /\ IdleScore /\ IdleApp

SpecSkew == InitSkewImage /\ [][NextSkew]_vars

InitScoreMaps == InitScore /\ IdleOmr /\ IdleSkew /\ IdleApp

SpecScore == InitScoreMaps /\ [][NextScore]_vars

\* =================================================================== claims

\* ---- C1 (SpecScore).  Grading conservation: the questions of the key the
\* claim calls blank (no entry, or an empty entry, in the student map), correct
\* (not blank, label equal to the key's) and wrong (not blank, label different)
\* are counted once each: the code's counter is the number of correct ones,
\* correct + wrong + blank = total = |key|, and a question only the student map
\* has is in none of them.
BlankQs ==
    {q \in DOMAIN key_answers :
        q \notin DOMAIN student_answers \/ student_answers[q] = ""}

CorrectQs ==
    {q \in DOMAIN key_answers \ BlankQs : student_answers[q] = key_answers[q]}

WrongQs ==
    {q \in DOMAIN key_answers \ BlankQs : student_answers[q] # key_answers[q]}

C2_AccuracyBounds ==
    score_pc \in {"app", "scorer"} =>
        /\ 0 <= score /\ score <= 10000
        /\ (score = 10000) <=> (correct = total /\ total > 0)
        /\ total = 0 => score = 0

\* ---- C3 (Spec).  Empty key is fatal: a press of the button whose key
\* pipeline fails or gives an empty map appends no record and stores none.
KeyFailsOrEmpty ==
    \/ Raises(answer_key_image)
    \/ DOMAIN omr_detect_answers(answer_key_image) = {}

C3_EmptyKeyFatal ==
    (pressed \in {"key_raised", "completed"} /\ KeyFailsOrEmpty) =>
        (made = {} /\ ~stored)

\* ---- C4 (Spec).  Per-sheet failure isolation: of the sheets of a completed
\* run, one whose pipeline failed has no record, and one whose pipeline
\* succeeded has exactly one (whatever came before it in the run).
SheetFailed(f) == f.outcome \in Caught \cup {"io_error"}

C4_FailureIsolation ==
    pressed = "completed" =>
        \A i \in 1..Len(student_papers) :
            IF SheetFailed(student_papers[i])
            THEN i \notin made
            ELSE /\ i \in made
                 /\ Cardinality({k \in 1..Len(results) : results[k].id = i}) = 1

\* ---- C5 (SpecOmr).  Label validity: every entry of the returned map is the
\* letter of the column, within its own row, of a bubble of that row that
\* clears the threshold, and is one of A-E.
OptionAlphabet == {"A", "B", "C", "D", "E"}

C5_LabelValidity ==
    omr_pc = "done" =>
        \A q \in DOMAIN answers :
            /\ q \in 1..Len(rows)
            /\ \E oi \in 0..(Len(rows[q]) - 1) :
                  /\ answers[q] = Letters[oi + 1]
                  /\ rows[q][oi + 1].fill > FillThreshold
            /\ answers[q] \in OptionAlphabet

\* ---- C6 (SpecOmr).  Fill selection: a row whose largest fill is above the
\* threshold is answered with its leftmost bubble of that fill; a row whose
\* largest fill is the threshold or less has no entry.
MaxFillOf(row) ==
    CHOOSE m \in {row[i].fill : i \in 1..Len(row)} :
        \A i \in 1..Len(row) : row[i].fill <= m

LeftmostAt(row, m) == Min({i \in 1..Len(row) : row[i].fill = m})

C6_FillSelection ==
    omr_pc = "done" =>
        \A q \in 1..Len(rows) :
            LET m == MaxFillOf(rows[q])
            IN  IF m > FillThreshold
                THEN /\ q \in DOMAIN answers
                     /\ answers[q] = Letters[LeftmostAt(rows[q], m)]
                ELSE q \notin DOMAIN answers

\* A row with a bubble exactly at the threshold to the left of two bubbles
\* that share the largest fill: the first of the two is the answer.
C6_Witness ==
    /\ omr_pc = "done"
    /\ \E q \in 1..Len(rows) :
          /\ Len(rows[q]) >= 3
          /\ rows[q][1].fill = FillThreshold
          /\ rows[q][2].fill = MaxFill
          /\ rows[q][3].fill = MaxFill
          /\ q \in DOMAIN answers
          /\ answers[q] = "B"

\* ---- C7 (SpecOmr).  Greedy row assignment: the rows the clustering loop
\* builds are the rows of the rule "a bubble within 20 px of the anchor of the
\* most recently opened row joins it, any other opens a row", applied to the
\* bubbles in ascending vertical order.
PlaceMostRecent(rs, b) ==
    IF rs # <<>> /\ Abs(rs[Len(rs)][1].y - b.y) < RowThreshold
    THEN [rs EXCEPT ![Len(rs)] = Append(@, b)]
    ELSE Append(rs, <<b>>)

RECURSIVE MostRecentRows(_)
MostRecentRows(s) ==
    IF s = <<>> THEN <<>> ELSE PlaceMostRecent(MostRecentRows(Front(s)), Last(s))

C7_GreedyRows ==
    omr_pc = "done" => clustered = MostRecentRows(SortByY(bubbles))

\* Two rows, the second joined by a bubble the scan first tried on the first,
\* and a bubble within 20 px of the one before it that opens a row all the same.
C7_Witness ==
    /\ omr_pc = "done"
    /\ Len(clustered) = 2
    /\ Len(clustered[1]) = 1
    /\ Len(clustered[2]) = 2
    /\ clustered[2][2].y - clustered[1][1].y > RowThreshold

\* ---- C8 (SpecOmr).  Row structure: the rows hold every bubble once and none
\* is empty; rows go top to bottom by anchor y; a row is ascending in x;
\* question numbers are the row indices 1..n; and the five bubbles at one y
\* with x = 10, 40, 70, 100, 130 are one row, labelled A-E from the left.
RECURSIVE Flat(_)
Flat(rs) == IF rs = <<>> THEN <<>> ELSE Flat(Front(rs)) \o Last(rs)

Count(c, s) == Cardinality({i \in 1..Len(s) : s[i] = c})

AnchorY(row) == Min({row[i].y : i \in 1..Len(row)})

ExampleXs == <<10, 40, 70, 100, 130>>

IsExample ==
    /\ Len(bubbles) = 5
    /\ \A k \in 1..5 : \E i \in 1..5 : bubbles[i].x = ExampleXs[k]
    /\ \A i \in 1..5 : bubbles[i].y = bubbles[1].y

C8_RowStructure ==
    omr_pc = "done" =>
        /\ Len(Flat(rows)) = Len(bubbles)
        /\ \A i \in 1..Len(bubbles) :
              Count(bubbles[i], Flat(rows)) = Count(bubbles[i], bubbles)
        /\ \A q \in 1..Len(rows) : rows[q] # <<>>
        /\ \A q \in 1..(Len(rows) - 1) : AnchorY(rows[q]) < AnchorY(rows[q + 1])
        /\ \A q \in 1..Len(rows) :
              \A i \in 1..(Len(rows[q]) - 1) : rows[q][i].x <= rows[q][i + 1].x
        /\ DOMAIN answers \subseteq 1..Len(rows)
        /\ IsExample =>
              /\ Len(rows) = 1
              /\ \A k \in 1..5 : rows[1][k].x = ExampleXs[k]
              /\ \A k \in 1..5 :
                    (1 \in DOMAIN answers /\ k = LeftmostAt(rows[1], MaxFillOf(rows[1])))
                        => answers[1] = Letters[k]

\* The example row, its bubble at x = 130 the fullest: the answer is E.
C8_Witness ==
    /\ omr_pc = "done"
    /\ IsExample
    /\ bubbles[1].x = 130
    /\ Len(rows) = 1
    /\ 1 \in DOMAIN answers
    /\ answers[1] = "E"

\* ---- C9 (Spec).  Result collection rebuilt per run: the stored collection
\* holds only records of the most recent press of the button, at most one for
\* each of its sheets.
C9_RebuiltPerRun ==
    results # NoResults =>
        /\ stored
        /\ \A i \in made : Cardinality({k \in 1..Len(results) : results[k].id = i}) = 1
        /\ \A k \in 1..Len(results) : results[k].id \in made

\* ---- C10 (SpecSkew).  Skew normalisation: with edge pixels found, the
\* angle the image is rotated by lies in the 45 degree band, so the rotation
\* is of 45 degrees at most (either end of the band is let through here: the
\* claim's band is half open); with none found, the image is not rotated.
C10_SkewBand ==
    skew_pc = "done" =>
        IF coords_len = 0
        THEN ~rotated
        ELSE /\ rotated
             /\ -45 <= angle /\ angle <= 45

====
